---- MODULE Spec2Model ----
(***************************************************************************)
(* nats-top: the terminal event loop of StartUI (src/nats-top.go), its     *)
(* modal option prompts (sort key, sample limit), the help view, the       *)
(* snapshot-update goroutine and the goroutine that shows "invalid order"  *)
(* for one second after an unrecognized sort key.                          *)
(*                                                                         *)
(* A character is a one-character string, the option buffer a sequence of  *)
(* characters.  The event handler of the select loop is the composition of *)
(* its nine consecutive if-blocks (Phase 1..9), each one an operator on a  *)
(* record of the loop's variables.  Spec is the program from its flags     *)
(* to its exit, FairSpec the same with the loop's receive on redraw fair,  *)
(* SortSpec one call of generateParagraph on a list of connections.        *)
(***************************************************************************)
EXTENDS Integers, Sequences, FiniteSets, TLC

\* ------------------------------------------------------------------ bounds
\* Most "invalid order" goroutines alive at once.
MaxDwell == 1
\* Most resize goroutines waiting to send on redraw at once.
MaxResize == 1
\* Most connections in a snapshot.
MaxConns == 3

\* ------------------------------------------------------------- characters
\* string(e.Ch) of an event that carries no character (Ch = 0).
NUL == "NUL"

\* The sort keys of the switch in main and in StartUI, as typed.
SortByCid == <<"c", "i", "d">>
SortBySubs == <<"s", "u", "b", "s">>
SortByPending == <<"p", "e", "n", "d", "i", "n", "g">>
SortByOutMsgs == <<"m", "s", "g", "s", "_", "t", "o">>
SortByInMsgs == <<"m", "s", "g", "s", "_", "f", "r", "o", "m">>
SortByOutBytes == <<"b", "y", "t", "e", "s", "_", "t", "o">>
SortByInBytes == <<"b", "y", "t", "e", "s", "_", "f", "r", "o", "m">>

SortOpts ==
  {SortByCid, SortBySubs, SortByPending, SortByOutMsgs, SortByInMsgs,
   SortByOutBytes, SortByInBytes}

\* ValidSortOpt were the keys matched by their beginning.
PrefixSortOpt(sortOpt) ==
  sortOpt # <<>> /\ \E t \in SortOpts : Len(sortOpt) <= Len(t) /\ SubSeq(t, 1, Len(sortOpt)) = sortOpt

\* case SortByCid, SortBySubs, ...: the switch takes its first branch.
ValidSortOpt(sortOpt) == sortOpt \in SortOpts

\* The sort keys the modelled operator types and passes as -sort.
TypedSortOpts == {SortByCid, SortByOutBytes}

\* What the modelled operator types into a prompt: a buffer is always the
\* beginning of one of these words.
TypedWords ==
  TypedSortOpts
    \cup {<<"5">>, <<"-", "5">>, <<"5", "h">>, <<"h">>, <<"n">>, <<NUL>>}

\* Command characters of Normal mode.
CommandChars == {"o", "n", "s", "q", "h", "?"}

Range(s) == {s[i] : i \in 1..Len(s)}

KeyChars == (UNION {Range(t) : t \in TypedWords} \cup CommandChars) \ {NUL}

IsPrefix(s, t) == Len(s) <= Len(t) /\ SubSeq(t, 1, Len(s)) = s

Typeable(buf) == \E t \in TypedWords : IsPrefix(buf, t)

\* ------------------------------------------------------------------ events
TopViewMode == "TopViewMode"
HelpViewMode == "HelpViewMode"

EventKey == "EventKey"
EventResize == "EventResize"

KeyNone == "KeyNone"
KeyEnter == "KeyEnter"
KeyBackspace == "KeyBackspace"
KeyBackspace2 == "KeyBackspace2"
KeyCtrlC == "KeyCtrlC"
KeySpace == "KeySpace"

Event(t, k, c) == [type |-> t, key |-> k, ch |-> c]
CharEvent(c) == Event(EventKey, KeyNone, c)
EnterEvent == Event(EventKey, KeyEnter, NUL)
ResizeEvent == Event(EventResize, KeyNone, NUL)

Events ==
  {CharEvent(c) : c \in KeyChars}
    \cup {Event(EventKey, k, NUL) :
            k \in {KeyEnter, KeyBackspace, KeyBackspace2, KeyCtrlC, KeySpace}}
    \cup {ResizeEvent}

IsBackspace(e) == e.type = EventKey /\ e.key \in {KeyBackspace, KeyBackspace2}
IsQuit(e) == e.type = EventKey /\ (e.ch = "q" \/ e.key = KeyCtrlC)

\* ------------------------------------------------------- fmt.Sscanf("%d")
Digits == {"0", "1", "2", "3", "4", "5", "6", "7", "8", "9"}

DigitVal(c) ==
  CASE c = "0" -> 0 [] c = "1" -> 1 [] c = "2" -> 2 [] c = "3" -> 3
    [] c = "4" -> 4 [] c = "5" -> 5 [] c = "6" -> 6 [] c = "7" -> 7
    [] c = "8" -> 8 [] c = "9" -> 9

\* The length of the longest run of digits at the start of s.
RECURSIVE DigitRun(_)
DigitRun(s) ==
  IF s = <<>> \/ Head(s) \notin Digits THEN 0 ELSE 1 + DigitRun(Tail(s))

RECURSIVE DecimalValue(_, _)
DecimalValue(s, acc) ==
  IF s = <<>> THEN acc ELSE DecimalValue(Tail(s), 10 * acc + DigitVal(Head(s)))

\* fmt.Sscanf(optionBuf, "%d", &n): an optional sign, then the digits up to
\* the first other character; what follows them is left unread.  The error
\* is non-nil when no digit is found.  (No word of TypedWords is a value
\* too large for an int, the other error of %d.)
Sscanf(buf) ==
  LET signed == buf # <<>> /\ Head(buf) \in {"-", "+"}
      rest == IF signed THEN Tail(buf) ELSE buf
      k == DigitRun(rest)
      v == DecimalValue(SubSeq(rest, 1, k), 0)
  IN  IF k = 0 THEN [err |-> TRUE, n |-> 0]
      ELSE [err |-> FALSE, n |-> IF signed /\ Head(buf) = "-" THEN 0 - v ELSE v]

\* ------------------------------------------ the rows of generateParagraph
\* The connections snapshots are made of: the fields of a connection that
\* the rows show and the sort keys compare.
ConnSamples ==
  {[Cid |-> 1, NumSubs |-> 2, Pending |-> 500, OutMsgs |-> 10, InMsgs |-> 0,
    OutBytes |-> 100, InBytes |-> 7],
   [Cid |-> 2, NumSubs |-> 0, Pending |-> 1500, OutMsgs |-> 10, InMsgs |-> 5,
    OutBytes |-> 50, InBytes |-> 7],
   [Cid |-> 3, NumSubs |-> 2, Pending |-> 0, OutMsgs |-> 3, InMsgs |-> 9,
    OutBytes |-> 4096, InBytes |-> 0],
   [Cid |-> 4, NumSubs |-> 1, Pending |-> 500, OutMsgs |-> 0, InMsgs |-> 5,
    OutBytes |-> 50, InBytes |-> 1024]}

\* stats.Connz.Conns: up to MaxConns connections, each once, in any order.
Snapshots ==
  {d \in UNION {[1..n -> ConnSamples] : n \in 0..MaxConns} :
     \A i, j \in 1..Len(d) : i # j => d[i] # d[j]}

\* The field that ByCid, BySubs, ByPending, ByMsgsTo, ByMsgsFrom, ByBytesTo
\* and ByBytesFrom compare.
SortKey(sortOpt, conn) ==
  CASE sortOpt = SortByCid -> conn.Cid
    [] sortOpt = SortBySubs -> conn.NumSubs
    [] sortOpt = SortByPending -> conn.Pending
    [] sortOpt = SortByOutMsgs -> conn.OutMsgs
    [] sortOpt = SortByInMsgs -> conn.InMsgs
    [] sortOpt = SortByOutBytes -> conn.OutBytes
    [] sortOpt = SortByInBytes -> conn.InBytes

\* Less of the By types: strictly smaller on the field.
ByLess(sortOpt, x, y) == SortKey(sortOpt, x) < SortKey(sortOpt, y)

\* SortLess were sort.Reverse left out of lines 225-236.
SortLessNoReverse(sortOpt, x, y) == ByLess(sortOpt, x, y)

\* Lines 222-237: the Less that sort.Sort is given: that of ByCid, and for
\* the other keys that of sort.Reverse, which swaps the arguments.
SortLess(sortOpt, x, y) ==
  IF sortOpt = SortByCid THEN ByLess(sortOpt, x, y) ELSE ByLess(sortOpt, y, x)

\* data.Swap(j, j - 1).
Swap(d, j) == [d EXCEPT ![j] = d[j - 1], ![j - 1] = d[j]]

\* sort.Sort on a slice this short (fewer than 7 elements) is an insertion
\* sort in every release of Go; its inner loop:
\* for j := i; j > a && data.Less(j, j-1); j-- { data.Swap(j, j-1) }.
RECURSIVE Sink(_, _, _)
Sink(sortOpt, d, j) ==
  IF j > 1 /\ SortLess(sortOpt, d[j], d[j - 1])
  THEN Sink(sortOpt, Swap(d, j), j - 1)
  ELSE d

\* Its outer loop: for i := a + 1; i < b; i++.
RECURSIVE InsertionSort(_, _, _)
InsertionSort(sortOpt, d, i) ==
  IF i > Len(d) THEN d ELSE InsertionSort(sortOpt, Sink(sortOpt, d, i), i + 1)

\* Lines 222-255: the switch sorts stats.Connz.Conns in place when
\* engine.SortOpt is one of the seven keys, and the loop of line 239 writes
\* one row for each connection in that order.
ConnRows(sortOpt, conns) ==
  IF sortOpt \in SortOpts THEN InsertionSort(sortOpt, conns, 2) ELSE conns

\* ------------------------------------------------------------------- state
\* flag.Int("n", 1024, ...)
DefaultConns == 1024

\* Values of the -sort flag.
SortFlagValues == TypedSortOpts \cup {<<>>, <<"x">>}

\* Where an "invalid order" goroutine stands: at "start" it has lines
\* 364-365 to execute (the Printf, then waitingSortOption = false), at
\* "sleep" lines 366-368 (the Sleep, refreshOptionHeader, optionBuf = "").
\* The Printf and refreshOptionHeader assign no variable of the program, so
\* each is one step with the assignment that follows it.  A goroutine runs
\* from its go statement on: while one is at "start" the Printf of line 364
\* is writing to the terminal.
DwellPcs == {"start", "sleep"}

VARIABLES
  pcMain,              \* "flags": main before ui.Init; "ui": the select loop; "exited"
  term,                \* "original" or "ui": the mode of the terminal
  exitLog,             \* the calls made on the way out of the process, in order
  engine,              \* engine.SortOpt, engine.Conns, engine.DisplaySubs
  waitingSortOption,
  waitingLimitOption,
  optionBuf,
  viewMode,
  dwell,               \* the number of "invalid order" goroutines at each statement
  updatePc,            \* update(): "off" before go update(), "recv" on
                       \* statsCh, "send" on redraw
  text,                \* text and par.Text: src, what it was formatted from
                       \* ("none" before line 281, "cleanStats", "stats");
                       \* drawn, ui.Render(ui.Body) has run since it was stored
  painted,             \* history: ui.Render has been called
  inFlight,            \* history: the snapshots update has taken from statsCh
                       \* whose send on redraw the loop has not received
  snapshot,            \* stats.Connz.Conns as generateParagraph is given it
  rows,                \* the connection rows generateParagraph has written
  resizers,            \* goroutines of the resize handler blocked on redraw
  typed,               \* history: 'o' pressed in Normal mode on an empty buffer
                       \* and the characters typed since, <<>> when none
  rejected             \* history: <<the sort key when an unrecognized one was
                       \* submitted>> until the next event is handled, else <<>>

vars ==
  <<pcMain, term, exitLog, engine, waitingSortOption, waitingLimitOption,
    optionBuf, viewMode, dwell, updatePc, text, painted, inFlight, snapshot,
    rows, resizers, typed, rejected>>

\* What no step of the user interface changes: the arguments and the result
\* of one call of generateParagraph.
sortVars == <<snapshot, rows>>

Init ==
  /\ pcMain = "flags"
  /\ term = "original"
  /\ exitLog = <<>>
  /\ engine = [SortOpt |-> <<>>, Conns |-> DefaultConns, DisplaySubs |-> FALSE]
  /\ waitingSortOption = FALSE
  /\ waitingLimitOption = FALSE
  /\ optionBuf = <<>>
  /\ viewMode = TopViewMode
  /\ dwell = [p \in DwellPcs |-> 0]
  /\ updatePc = "off"
  /\ text = [src |-> "none", drawn |-> FALSE]
  /\ painted = FALSE
  /\ inFlight = 0
  /\ snapshot = <<>>
  /\ rows = <<>>
  /\ resizers = 0
  /\ typed = <<>>
  /\ rejected = <<>>

\* ----------------------------------------------------- the event handler
\* The variables the handler of "case e := <-evt" reads and writes, and what
\* it has done: cont after a continue, exit after cleanExit, spawn and resize
\* for the goroutines it started, log for the calls of its way out.
Loop ==
  [sort |-> waitingSortOption, limit |-> waitingLimitOption, buf |-> optionBuf,
   SortOpt |-> engine.SortOpt, Conns |-> engine.Conns, subs |-> engine.DisplaySubs,
   view |-> viewMode, cont |-> FALSE, exit |-> FALSE, spawn |-> 0, resize |-> 0,
   log |-> <<>>]

\* Lines 380-385: backspace on a non-empty buffer drops its last character,
\* every other event appends string(e.Ch).
EditBuf(buf, e) ==
  IF e.type = EventKey /\ Len(buf) > 0 /\ IsBackspace(e)
  THEN SubSeq(buf, 1, Len(buf) - 1)
  ELSE Append(buf, e.ch)

\* Lines 352-387.
SortPrompt(r, e) ==
  IF ~r.sort THEN r
  ELSE IF e.type = EventKey /\ e.key = KeyEnter
       THEN IF ValidSortOpt(r.buf)
            THEN [r EXCEPT !.SortOpt = r.buf, !.sort = FALSE, !.buf = <<>>,
                           !.cont = TRUE]
            ELSE [r EXCEPT !.spawn = 1, !.cont = TRUE]
       ELSE [r EXCEPT !.buf = EditBuf(r.buf, e)]

\* Lines 389-413.
LimitPrompt(r, e) ==
  IF ~r.limit THEN r
  ELSE IF e.type = EventKey /\ e.key = KeyEnter
       THEN LET scan == Sscanf(r.buf)
            IN  [r EXCEPT !.Conns = IF scan.err THEN r.Conns ELSE scan.n,
                          !.limit = FALSE, !.buf = <<>>, !.cont = TRUE]
       ELSE [r EXCEPT !.buf = EditBuf(r.buf, e)]

\* Lines 138-145: clearScreen, ui.Close, os.Exit(0).
cleanExit == <<"ui.Close", "os.Exit(0)">>

\* Quit were it placed so that it runs in Normal mode only.
QuitInNormalOnly(r, e) ==
  IF IsQuit(e) /\ ~(r.sort \/ r.limit)
  THEN [r EXCEPT !.exit = TRUE, !.log = <<"close(shutdownCh)">> \o cleanExit]
  ELSE r

\* Lines 415-418.
Quit(r, e) ==
  IF IsQuit(e)
  THEN [r EXCEPT !.exit = TRUE, !.log = <<"close(shutdownCh)">> \o cleanExit]
  ELSE r

\* Lines 420-428.
ToggleSubs(r, e) ==
  IF e.type = EventKey /\ e.ch = "s" /\ ~(r.limit \/ r.sort)
  THEN [r EXCEPT !.subs = ~r.subs]
  ELSE r

\* Lines 430-434.
DismissHelp(r, e) ==
  IF e.type = EventKey /\ r.view = HelpViewMode
  THEN [r EXCEPT !.view = TopViewMode, !.cont = TRUE]
  ELSE r

\* Lines 436-439.
OpenSort(r, e) ==
  IF e.type = EventKey /\ e.ch = "o" /\ ~r.limit /\ r.view = TopViewMode
  THEN [r EXCEPT !.sort = TRUE]
  ELSE r

\* OpenLimit without the test of waitingSortOption.
OpenLimitUnguarded(r, e) ==
  IF e.type = EventKey /\ e.ch = "n" /\ r.view = TopViewMode
  THEN [r EXCEPT !.limit = TRUE]
  ELSE r

\* Lines 441-444.
OpenLimit(r, e) ==
  IF e.type = EventKey /\ e.ch = "n" /\ ~r.sort /\ r.view = TopViewMode
  THEN [r EXCEPT !.limit = TRUE]
  ELSE r

\* ShowHelp were it to switch the view in every input mode and leave the
\* flags as they are.
ShowHelpInAnyMode(r, e) ==
  IF e.type = EventKey /\ e.ch \in {"?", "h"}
  THEN [r EXCEPT !.buf = IF r.view = TopViewMode THEN <<>> ELSE r.buf,
                 !.view = HelpViewMode]
  ELSE r

\* Lines 446-456.
ShowHelp(r, e) ==
  IF e.type = EventKey /\ e.ch \in {"?", "h"} /\ ~(r.sort \/ r.limit)
  THEN [r EXCEPT !.buf = IF r.view = TopViewMode THEN <<>> ELSE r.buf,
                 !.view = HelpViewMode, !.limit = FALSE, !.sort = FALSE]
  ELSE r

\* Lines 458-462.
Resize(r, e) ==
  IF e.type = EventResize THEN [r EXCEPT !.resize = 1] ELSE r

NumPhases == 9

Phase(i, r, e) ==
  CASE i = 1 -> SortPrompt(r, e)
    [] i = 2 -> LimitPrompt(r, e)
    [] i = 3 -> Quit(r, e)
    [] i = 4 -> ToggleSubs(r, e)
    [] i = 5 -> DismissHelp(r, e)
    [] i = 6 -> OpenSort(r, e)
    [] i = 7 -> OpenLimit(r, e)
    [] i = 8 -> ShowHelp(r, e)
    [] i = 9 -> Resize(r, e)

\* The if-blocks i..j in order; a continue or the exit of the process skips
\* the rest.
RECURSIVE Run(_, _, _, _)
Run(r, e, i, j) ==
  IF i > j THEN r
  ELSE Run(IF r.cont \/ r.exit THEN r ELSE Phase(i, r, e), e, i + 1, j)

\* One iteration of the select loop on event e.
Handler(r, e) == Run(r, e, 1, NumPhases)

\* The same iteration when line 365 of an "invalid order" goroutine
\* (waitingSortOption = false) executes between the if-blocks k and k + 1.
HandlerRacingFlag(r, e, k) ==
  Run([Run(r, e, 1, k) EXCEPT !.sort = FALSE], e, k + 1, NumPhases)

\* ----------------------------------------------------------------- actions
DwellLive == dwell["start"] + dwell["sleep"]

\* A goroutine leaves statement p for statement q ("done": it returns).
DwellMove(d, p, q) ==
  [x \in DwellPcs |->
     IF x = p THEN d[x] - 1 ELSE IF x = q THEN d[x] + 1 ELSE d[x]]

\* os.Exit and the end of a panic end every goroutine with the process:
\* none is left at a statement, none holds a snapshot.
GoroutinesEnd ==
  /\ dwell' = [p \in DwellPcs |-> 0]
  /\ updatePc' = "off"
  /\ resizers' = 0
  /\ inFlight' = 0

\* History of the keys typed since 'o' opened the sort prompt from Normal
\* mode in the Dashboard view on an empty buffer, kept while they spell the
\* beginning of a sort key.
TypedAfter(r, e) ==
  IF /\ e = CharEvent("o") /\ ~waitingSortOption /\ ~waitingLimitOption
     /\ viewMode = TopViewMode /\ optionBuf = <<>> /\ r.sort
  THEN <<"o">>
  ELSE IF /\ typed # <<>> /\ e.type = EventKey /\ e.key = KeyNone
          /\ \E t \in TypedSortOpts : IsPrefix(Append(Tail(typed), e.ch), t)
       THEN Append(typed, e.ch)
       ELSE <<>>

\* main, lines 112-130: the -sort flag is checked, then ui.Init, the poller
\* is started and StartUI is called.
Startup(sortBy) ==
  /\ pcMain = "flags"
  /\ IF ValidSortOpt(sortBy)
     THEN /\ engine' = [engine EXCEPT !.SortOpt = sortBy]
          /\ term' = "ui"
          /\ pcMain' = "StartUI"
          /\ UNCHANGED exitLog
     ELSE /\ exitLog' = <<"os.Exit(1)">>
          /\ pcMain' = "exited"
          /\ UNCHANGED <<engine, term>>
  /\ UNCHANGED <<waitingSortOption, waitingLimitOption, optionBuf, viewMode,
                 dwell, updatePc, text, painted, inFlight, sortVars, resizers,
                 typed, rejected>>

\* FirstRender were go update() placed ahead of ui.Render and the render
\* left to the first redraw.
UpdateBeforeFirstRender ==
  /\ pcMain = "StartUI"
  /\ text' = [src |-> "cleanStats", drawn |-> FALSE]
  /\ updatePc' = "recv"
  /\ pcMain' = "go update"
  /\ UNCHANGED <<term, exitLog, engine, waitingSortOption, waitingLimitOption,
                 optionBuf, viewMode, dwell, painted, inFlight, sortVars,
                 resizers, typed, rejected>>

\* StartUI, lines 274-344: the text of the zero-value cleanStats is made the
\* text of par, the grids are built and ui.Render(ui.Body) paints it.
FirstRender ==
  /\ pcMain = "StartUI"
  /\ text' = [src |-> "cleanStats", drawn |-> TRUE]
  /\ painted' = TRUE
  /\ pcMain' = "go update"
  /\ UNCHANGED <<term, exitLog, engine, waitingSortOption, waitingLimitOption,
                 optionBuf, viewMode, dwell, updatePc, inFlight, sortVars,
                 resizers, typed, rejected>>

\* Line 346: go update(); the loop of line 348 is entered.
GoUpdate ==
  /\ pcMain = "go update"
  /\ updatePc' = "recv"
  /\ pcMain' = "ui"
  /\ UNCHANGED <<term, exitLog, engine, waitingSortOption, waitingLimitOption,
                 optionBuf, viewMode, dwell, text, painted, inFlight, sortVars,
                 resizers, typed, rejected>>

\* The loop's variables after an iteration that ended in r, with the
\* goroutines r started; d is dwell as the iteration left the others.
Store(r, e, d) ==
  /\ r.exit \/ Typeable(r.buf)
  /\ r.spawn = 1 => DwellLive < MaxDwell
  /\ r.resize = 1 => resizers < MaxResize
  /\ waitingSortOption' = r.sort
  /\ waitingLimitOption' = r.limit
  /\ optionBuf' = r.buf
  /\ viewMode' = r.view
  /\ engine' = [SortOpt |-> r.SortOpt, Conns |-> r.Conns, DisplaySubs |-> r.subs]
  /\ IF r.exit
     THEN /\ exitLog' = exitLog \o r.log
          /\ term' = "original"
          /\ pcMain' = "exited"
          /\ GoroutinesEnd
     ELSE /\ dwell' = [d EXCEPT !["start"] = @ + r.spawn]
          /\ resizers' = resizers + r.resize
          /\ UNCHANGED <<exitLog, term, pcMain, updatePc, inFlight>>
  /\ typed' = TypedAfter(r, e)
  /\ rejected' = IF r.spawn = 1 THEN <<engine.SortOpt>> ELSE <<>>
  /\ UNCHANGED <<text, painted, sortVars>>

\* case e := <-evt, lines 350-462.
HandleEvent(e) ==
  /\ pcMain = "ui"
  /\ Store(Handler(Loop, e), e, dwell)

\* The same, with waitingSortOption = false of an "invalid order" goroutine
\* executed during the iteration.
HandleEventRacingFlag(e, k) ==
  /\ pcMain = "ui"
  /\ dwell["start"] > 0
  /\ Store(HandlerRacingFlag(Loop, e, k), e, DwellMove(dwell, "start", "sleep"))

\* Line 384 or 381 when optionBuf = "" of an "invalid order" goroutine
\* executes between its read and its write of optionBuf: the goroutine's
\* write is overwritten.
HandleEventRacingReset(e) ==
  /\ pcMain = "ui"
  /\ dwell["sleep"] > 0
  /\ waitingSortOption \/ waitingLimitOption
  /\ ~(e.type = EventKey /\ e.key = KeyEnter)
  /\ Store(Handler(Loop, e), e, DwellMove(dwell, "sleep", "done"))

\* Line 381 when optionBuf = "" executes between len(optionBuf) > 0 and the
\* slice expression: optionBuf[:-1] panics on the main goroutine, the
\* deferred ui.Close of main runs and the process ends with status 2.
BackspacePanic(e) ==
  /\ pcMain = "ui"
  /\ dwell["sleep"] > 0
  /\ waitingSortOption \/ waitingLimitOption
  /\ IsBackspace(e)
  /\ Len(optionBuf) > 0
  /\ optionBuf' = <<>>
  /\ exitLog' = exitLog \o <<"panic", "ui.Close", "os.Exit(2)">>
  /\ term' = "original"
  /\ pcMain' = "exited"
  /\ GoroutinesEnd
  /\ typed' = <<>>
  /\ rejected' = <<>>
  /\ UNCHANGED <<engine, waitingSortOption, waitingLimitOption, viewMode,
                 text, painted, sortVars>>

\* Lines 364-365: the goroutine prints "invalid order: ..." and leaves the
\* sort prompt.
DwellClearFlag ==
  /\ pcMain = "ui"
  /\ dwell["start"] > 0
  /\ waitingSortOption' = FALSE
  /\ dwell' = DwellMove(dwell, "start", "sleep")
  /\ UNCHANGED <<pcMain, term, exitLog, engine, waitingLimitOption, optionBuf,
                 viewMode, updatePc, text, painted, inFlight, sortVars,
                 resizers, typed, rejected>>

\* DwellReset without line 368.
DwellResetKeepsBuffer ==
  /\ pcMain = "ui"
  /\ dwell["sleep"] > 0
  /\ dwell' = DwellMove(dwell, "sleep", "done")
  /\ UNCHANGED <<pcMain, term, exitLog, engine, waitingSortOption,
                 waitingLimitOption, optionBuf, viewMode, updatePc, text,
                 painted, inFlight, sortVars, resizers, typed, rejected>>

\* Lines 366-368: the second is over, refreshOptionHeader masks the prompt
\* and the buffer is emptied.
DwellReset ==
  /\ pcMain = "ui"
  /\ dwell["sleep"] > 0
  /\ optionBuf' = <<>>
  /\ dwell' = DwellMove(dwell, "sleep", "done")
  /\ UNCHANGED <<pcMain, term, exitLog, engine, waitingSortOption,
                 waitingLimitOption, viewMode, updatePc, text, painted,
                 inFlight, sortVars, resizers, typed, rejected>>

\* UpdateFormat were redraw a buffered channel: the send of line 321 returns
\* at once and update is back at line 315.
UpdateFormatBuffered ==
  /\ pcMain # "exited"
  /\ updatePc = "recv"
  /\ text' = [src |-> "stats", drawn |-> FALSE]
  /\ inFlight' = inFlight + 1
  /\ UNCHANGED <<pcMain, term, exitLog, engine, waitingSortOption,
                 waitingLimitOption, optionBuf, viewMode, dwell, updatePc,
                 painted, sortVars, resizers, typed, rejected>>

\* Lines 315-319: update receives a snapshot from the poller, formats it
\* and stores the text in text and par.Text; it then waits to send on the
\* unbuffered redraw.
UpdateFormat ==
  /\ pcMain # "exited"
  /\ updatePc = "recv"
  /\ text' = [src |-> "stats", drawn |-> FALSE]
  /\ inFlight' = inFlight + 1
  /\ updatePc' = "send"
  /\ UNCHANGED <<pcMain, term, exitLog, engine, waitingSortOption,
                 waitingLimitOption, optionBuf, viewMode, dwell, painted,
                 sortVars, resizers, typed, rejected>>

\* Lines 315-318 and 159-168: update receives a snapshot that is nil or has
\* a nil Varz, Connz or Rates; generateParagraph dereferences it and panics
\* on the goroutine of update, which defers nothing: the runtime ends the
\* process with status 2 and the deferred ui.Close of main does not run.
UpdatePanic ==
  /\ pcMain # "exited"
  /\ updatePc = "recv"
  /\ exitLog' = exitLog \o <<"panic", "os.Exit(2)">>
  /\ pcMain' = "exited"
  /\ GoroutinesEnd
  /\ typed' = <<>>
  /\ rejected' = <<>>
  /\ UNCHANGED <<term, engine, waitingSortOption, waitingLimitOption,
                 optionBuf, viewMode, text, painted, sortVars>>

\* RedrawFromUpdate were case <-redraw to render nothing.
RedrawFromUpdateNoRender ==
  /\ pcMain = "ui"
  /\ updatePc = "send"
  /\ updatePc' = "recv"
  /\ inFlight' = inFlight - 1
  /\ UNCHANGED <<pcMain, term, exitLog, engine, waitingSortOption,
                 waitingLimitOption, optionBuf, viewMode, dwell, text, painted,
                 sortVars, resizers, typed, rejected>>

\* Lines 321 and 464-465: the loop receives update's redraw and renders.
RedrawFromUpdate ==
  /\ pcMain = "ui"
  /\ updatePc = "send"
  /\ updatePc' = "recv"
  /\ inFlight' = inFlight - 1
  /\ text' = [text EXCEPT !.drawn = TRUE]
  /\ painted' = TRUE
  /\ UNCHANGED <<pcMain, term, exitLog, engine, waitingSortOption,
                 waitingLimitOption, optionBuf, viewMode, dwell, sortVars,
                 resizers, typed, rejected>>

\* Lines 461 and 464-465: the loop receives a resize goroutine's redraw and
\* renders.
RedrawFromResize ==
  /\ pcMain = "ui"
  /\ resizers > 0
  /\ resizers' = resizers - 1
  /\ text' = [text EXCEPT !.drawn = TRUE]
  /\ painted' = TRUE
  /\ UNCHANGED <<pcMain, term, exitLog, engine, waitingSortOption,
                 waitingLimitOption, optionBuf, viewMode, dwell, updatePc,
                 inFlight, sortVars, typed, rejected>>

\* The places between if-blocks where line 365 changes what the iteration
\* reads next: before the 's' block, before and after the 'o' block, before
\* the help block.
RacePoints == {3, 5, 6, 7}

\* The events whose iteration reads or writes waitingSortOption after line
\* 352 (lines 420, 438, 441, 446); for every other event the outcome is that
\* of the iteration followed by line 365.
RaceEvents == {CharEvent(c) : c \in {"s", "o", "n", "h", "?"}}

Next ==
  \/ \E sortBy \in SortFlagValues : Startup(sortBy)
  \/ FirstRender
  \/ GoUpdate
  \/ \E e \in Events : HandleEvent(e)
  \/ \E e \in RaceEvents : \E k \in RacePoints : HandleEventRacingFlag(e, k)
  \/ \E e \in Events : HandleEventRacingReset(e)
  \/ \E e \in Events : BackspacePanic(e)
  \/ DwellClearFlag
  \/ DwellReset
  \/ UpdateFormat
  \/ UpdatePanic
  \/ RedrawFromUpdate
  \/ RedrawFromResize

Spec == Init /\ [][Next]_vars

\* The select of line 349 chooses at random among its ready cases, and
\* update stays blocked in its send until the loop receives it: a redraw
\* that update is sending is not passed over for ever.
FairSpec == Init /\ [][Next]_vars /\ WF_vars(RedrawFromUpdate)

\* ------------------------------------------- one call of generateParagraph
\* Spec keeps of a text only what it was formatted from.  SortSpec follows
\* one call of generateParagraph by update (line 318) on a snapshot of
\* Snapshots under each of the seven sort keys, in the running UI.
SortInit ==
  /\ pcMain = "ui"
  /\ term = "ui"
  /\ exitLog = <<>>
  /\ \E sortOpt \in SortOpts :
       engine = [SortOpt |-> sortOpt, Conns |-> DefaultConns, DisplaySubs |-> FALSE]
  /\ waitingSortOption = FALSE
  /\ waitingLimitOption = FALSE
  /\ optionBuf = <<>>
  /\ viewMode = TopViewMode
  /\ dwell = [p \in DwellPcs |-> 0]
  /\ updatePc = "recv"
  /\ text = [src |-> "cleanStats", drawn |-> TRUE]
  /\ painted = TRUE
  /\ inFlight = 0
  /\ snapshot \in Snapshots
  /\ rows = <<>>
  /\ resizers = 0
  /\ typed = <<>>
  /\ rejected = <<>>

\* Lines 315-319 with the rows of lines 222-255.
GenerateParagraph ==
  /\ updatePc = "recv"
  /\ rows' = ConnRows(engine.SortOpt, snapshot)
  /\ text' = [src |-> "stats", drawn |-> FALSE]
  /\ inFlight' = inFlight + 1
  /\ updatePc' = "send"
  /\ UNCHANGED <<pcMain, term, exitLog, engine, waitingSortOption,
                 waitingLimitOption, optionBuf, viewMode, dwell, painted,
                 snapshot, resizers, typed, rejected>>

SortNext == GenerateParagraph

SortSpec == SortInit /\ [][SortNext]_vars

\* ------------------------------------------------------------ properties
InputNormal == ~waitingSortOption /\ ~waitingLimitOption

\* ui.Init has been called.
UiReached == term = "ui" \/ \E i \in 1..Len(exitLog) : exitLog[i] = "ui.Close"

\* C1: waitingSortOption and waitingLimitOption are never both true, whatever
\* the interleaving of events with the update and "invalid order" goroutines.
NeverBothAwaiting == ~(waitingSortOption /\ waitingLimitOption)

\* C1: the limit prompt is open while an "invalid order" goroutine is alive.
LimitPromptDuringDwell == waitingLimitOption /\ DwellLive > 0

\* C2: once the UI is reached engine.SortOpt is one of the seven sort keys,
\* and it is still the previous key after an unrecognized one was submitted.
SortOptRecognized ==
  /\ UiReached => engine.SortOpt \in SortOpts
  /\ rejected # <<>> => engine.SortOpt = rejected[1]

\* C2: an unrecognized, non-empty buffer has just been submitted.
UnrecognizedSubmitted == pcMain = "ui" /\ rejected # <<>> /\ optionBuf # <<>>

\* C3: with no event handled since an unrecognized sort key was submitted,
\* once the "invalid order" goroutines have finished the sort key is the one
\* before the Enter, both flags are false and the buffer is empty.
NormalAfterDwell ==
  (rejected # <<>> /\ DwellLive = 0) =>
    /\ engine.SortOpt = rejected[1]
    /\ InputNormal
    /\ optionBuf = <<>>

\* C3: the dwell after a rejected sort key is over and no event was handled.
DwellOver == pcMain = "ui" /\ rejected # <<>> /\ DwellLive = 0

\* C4: 'o' in Normal mode, Dashboard view, empty buffer, then the characters
\* of a sort key T, then Enter: the sort key is T, the mode Normal, the buffer
\* empty.
TypedSortKeyApplied ==
  [][(typed # <<>> /\ Tail(typed) \in SortOpts /\ HandleEvent(EnterEvent)) =>
       /\ engine'.SortOpt = Tail(typed)
       /\ InputNormal'
       /\ optionBuf' = <<>>]_vars

\* C5: the buffer is empty right after every step from Normal into an
\* awaiting mode, and the buffer of an open prompt is emptied only by the
\* prompt itself (a backspace on its last character, its commit).
BufferClearedOnEntry ==
  [][/\ (InputNormal /\ ~InputNormal') => optionBuf' = <<>>
     /\ (~InputNormal /\ ~InputNormal' /\ Len(optionBuf) > 1) => optionBuf' # <<>>]_vars

IsDecimal(buf) == buf # <<>> /\ Range(buf) \subseteq Digits

\* C6: Enter in the limit prompt sets engine.Conns to the buffer's value
\* exactly when the buffer is a non-negative decimal integer, and ends in
\* Normal mode with an empty buffer.
LimitAppliedIffDecimal ==
  [][(waitingLimitOption /\ HandleEvent(EnterEvent)) =>
       /\ engine'.Conns =
            IF IsDecimal(optionBuf) THEN DecimalValue(optionBuf, 0) ELSE engine.Conns
       /\ InputNormal'
       /\ optionBuf' = <<>>]_vars

QuitEvents == {e \in Events : IsQuit(e)}

QuitLog == <<"close(shutdownCh)", "ui.Close", "os.Exit(0)">>

\* C7: in every input mode and view of the running UI the iteration of the
\* loop on a quit event closes shutdownCh, then calls ui.Close, then exits
\* with status 0, each once, and runs none of its later if-blocks (the view,
\* the configuration and the flags are as before); a process that has closed
\* shutdownCh has done exactly that and has left the terminal restored.
QuitHonored ==
  /\ pcMain = "ui" =>
       \A e \in QuitEvents :
         LET r == Handler(Loop, e)
         IN  /\ r.exit
             /\ r.log = QuitLog
             /\ r.view = viewMode
             /\ r.sort = waitingSortOption /\ r.limit = waitingLimitOption
             /\ r.SortOpt = engine.SortOpt /\ r.Conns = engine.Conns
             /\ r.subs = engine.DisplaySubs
  /\ (exitLog # <<>> /\ exitLog[1] = "close(shutdownCh)") =>
       /\ exitLog = QuitLog
       /\ pcMain = "exited"
       /\ term = "original"

\* C7: the process has quit out of a sort prompt with characters typed.
QuitInSortPrompt ==
  /\ pcMain = "exited"
  /\ exitLog # <<>> /\ exitLog[1] = "close(shutdownCh)"
  /\ waitingSortOption
  /\ Len(optionBuf) > 1

\* C8: 's' flips engine.DisplaySubs exactly when it is pressed in Normal mode
\* in the Dashboard view.
SubsToggledOnlyInDashboard ==
  [][HandleEvent(CharEvent("s")) =>
       ((engine'.DisplaySubs # engine.DisplaySubs)
          <=> (InputNormal /\ viewMode = TopViewMode))]_vars

\* C9: a key other than quit handled in the Help view returns to the
\* Dashboard and changes nothing else.
HelpDismissedWithoutEffect ==
  [][\A e \in Events :
       (e.type = EventKey /\ ~IsQuit(e) /\ viewMode = HelpViewMode /\ HandleEvent(e)) =>
         /\ viewMode' = TopViewMode
         /\ engine' = engine
         /\ waitingSortOption' = waitingSortOption
         /\ waitingLimitOption' = waitingLimitOption
         /\ optionBuf' = optionBuf]_vars

\* C10: in an awaiting mode a backspace removes the last character of a
\* non-empty buffer and leaves an empty buffer empty; a character key
\* appends its character.
BufferEdited ==
  [][\A e \in Events :
       (~InputNormal /\ HandleEvent(e)) =>
         /\ IsBackspace(e) =>
              optionBuf' = IF optionBuf = <<>> THEN <<>>
                           ELSE SubSeq(optionBuf, 1, Len(optionBuf) - 1)
         /\ (e.type = EventKey /\ e.key = KeyNone) =>
              optionBuf' = Append(optionBuf, e.ch)]_vars

\* C11: every event whose handling switches the view, and every resize,
\* starts a send on redraw in that same iteration of the loop.
ViewChangeSignalsRedraw ==
  [][\A e \in Events :
       (/\ HandleEvent(e)
        /\ pcMain' = "ui"
        /\ viewMode' # viewMode \/ e.type = EventResize) =>
         resizers' = resizers + 1]_vars

\* C12: the steps of the update goroutine and of the "invalid order"
\* goroutines write neither engine, nor the flags, nor the option buffer,
\* nor the dashboard text.
OnlyLoopWrites ==
  [][(DwellClearFlag \/ DwellReset \/ UpdateFormat) =>
       UNCHANGED <<engine, waitingSortOption, waitingLimitOption, optionBuf,
                   text>>]_vars

\* C13: the loop renders (ui.Render of line 465) only while no "invalid
\* order" goroutine is writing to the terminal.
RenderAlone ==
  [][(RedrawFromUpdate \/ RedrawFromResize) => dwell["start"] = 0]_vars

\* C14: at most one snapshot has been taken from statsCh without its redraw
\* received by the loop, and update is back at its receive on statsCh only
\* when there is none.
InFlightAtMostOne ==
  /\ inFlight <= 1
  /\ updatePc = "recv" => inFlight = 0

\* C14: update waits to send the redraw of a snapshot whose text the loop
\* has already rendered for a resize.
SnapshotAwaitingRedraw ==
  pcMain = "ui" /\ inFlight = 1 /\ updatePc = "send" /\ text.drawn

\* C15: update is started, and a snapshot received, only after ui.Render has
\* painted the text of the zero-value cleanStats.
FirstPaintBeforeSnapshot ==
  /\ (updatePc # "off" \/ inFlight > 0 \/ text.src = "stats") => painted
  /\ pcMain = "go update" =>
       updatePc = "off" /\ text = [src |-> "cleanStats", drawn |-> TRUE]

\* C15: the text of the first snapshot has been stored.
FirstSnapshotStored == text.src = "stats" /\ inFlight = 1

\* C17: a process that has ended after ui.Init has called ui.Close and left
\* the terminal in its original mode.
TerminalRestoredOnExit ==
  (pcMain = "exited" /\ exitLog # <<"os.Exit(1)">>) =>
    /\ term = "original"
    /\ \E i \in 1..Len(exitLog) : exitLog[i] = "ui.Close"

\* C18: in the Help view neither waitingSortOption nor waitingLimitOption is
\* set.
HelpOnlyInNormal == viewMode = HelpViewMode => InputNormal

\* C18: the Help view is open while an "invalid order" goroutine is alive.
HelpDuringDwell == pcMain = "ui" /\ viewMode = HelpViewMode /\ DwellLive > 0

\* C19: a resize handled in an awaiting mode changes neither the option
\* buffer, nor the flags, nor the view, nor engine, and starts one send on
\* redraw.
ResizeKeepsPrompt ==
  [][(~InputNormal /\ HandleEvent(ResizeEvent)) =>
       /\ optionBuf' = optionBuf
       /\ waitingSortOption' = waitingSortOption
       /\ waitingLimitOption' = waitingLimitOption
       /\ viewMode' = viewMode
       /\ engine' = engine
       /\ resizers' = resizers + 1]_vars

Count(d, x) == Cardinality({i \in 1..Len(d) : d[i] = x})

\* C16: the rows of a formatted snapshot are its connections, each as many
\* times as in the snapshot, with the field of the sort key never increasing
\* from a row to the next for subs, pending, msgs_to, msgs_from, bytes_to
\* and bytes_from, and never decreasing for cid.
RowsSorted ==
  text.src = "stats" =>
    /\ Len(rows) = Len(snapshot)
    /\ \A x \in ConnSamples : Count(rows, x) = Count(snapshot, x)
    /\ \A i \in 1..(Len(rows) - 1) :
         IF engine.SortOpt = SortByCid
         THEN SortKey(engine.SortOpt, rows[i]) <= SortKey(engine.SortOpt, rows[i + 1])
         ELSE SortKey(engine.SortOpt, rows[i]) >= SortKey(engine.SortOpt, rows[i + 1])

\* C16: connections with pending 500 and 1500, in that order, sorted by
\* pending: the rows are those of 1500, then 500.
PendingRowsReversed ==
  /\ text.src = "stats"
  /\ engine.SortOpt = SortByPending
  /\ Len(snapshot) = 2 /\ snapshot[1].Pending = 500 /\ snapshot[2].Pending = 1500
  /\ rows[1].Pending = 1500 /\ rows[2].Pending = 500

====
